---- MODULE Spec2Model ----
(***************************************************************************)
(* Clientes x Frentes dashboard (src/app.py): the metrics pipeline         *)
(* (validate_df, ensure_metrics, client_table), the range & list filter,   *)
(* the widgets that feed it, and the Streamlit script run that ties them   *)
(* to the session state (df_cached, client_list).                          *)
(*                                                                         *)
(* Tables are records [cols, rows]: cols is the set of column names, rows  *)
(* the sequence of rows in table order.  A raw row carries the three       *)
(* columns the code reads:                                                 *)
(*   client = "Empresa relacionada - Nomes"                                *)
(*   front  = "Frente de Negocio"  (the source spells it with an accent)   *)
(*   n_prod = "N_produtos_total"                                           *)
(* "Produto Principal" is required by validate_df and then never read; it  *)
(* is kept as a column name only.                                          *)
(***************************************************************************)
EXTENDS Integers, Sequences, FiniteSets, TLC

VARIABLES
    stage,          \* pipeline: which component ran last
    raw,            \* pipeline: the loaded table
    err,            \* pipeline: what validate_df raised, or NoError
    derived,        \* pipeline: ensure_metrics(raw)
    clients,        \* pipeline/filter: client_table(derived)
    flt,            \* filter: the widget values the filter was run with
    base_filtered,  \* filter: the filtered Client Summary
    top_n_args,     \* filter: the arguments the Top-N slider is built with
    default_src,    \* session: the table in the default file's sheet
    lib,            \* session: what the installed st.slider does with min_value > max_value
    df_cached,      \* st.session_state.df_cached, or NoDf
    client_list,    \* st.session_state.client_list, or NoList
    outcome,        \* how the last script run ended
    shown,          \* what the last script run rendered below the filters
    attempt,        \* the load the last script run attempted
    last_valid      \* the last table that passed validate_df

pipeVars == <<stage, raw, err, derived>>

runVars == <<clients, flt, base_filtered, top_n_args>>

sessVars == <<default_src, lib, df_cached, client_list, outcome, shown, attempt, last_valid>>

vars == <<pipeVars, runVars, sessVars>>

(***************************************************************************)
(* Cell values                                                             *)
(***************************************************************************)
\* A missing cell of a text column (pandas NaN/None); distinct from "".
NA == "<NA>"
\* A missing cell of a numeric column (pandas NaN); the numbers are >= 0.
NaN == -1

COL_CLIENT == "Empresa relacionada - Nomes"
COL_FRONT == "Frente de Negocio"
COL_PRODUCT == "Produto Principal"
COL_NPROD == "N_produtos_total"

REQUIRED_COLS == <<COL_CLIENT, COL_FRONT, COL_PRODUCT, COL_NPROD>>

RequiredSet == {REQUIRED_COLS[i] : i \in DOMAIN REQUIRED_COLS}

(***************************************************************************)
(* Bounds and input alphabets                                              *)
(***************************************************************************)
\* Longest raw table drawn for the pipeline.
MaxRows == 3

\* Client names in code-point order, the order groupby and sorted() use.
NameOrder ==
    <<"Acme", "Beta", "C01", "C02", "C03", "C04", "C05", "C06", "C07", "C08", "C09", "C10",
      "acme">>

\* The clients of the drawn tables; "Acme" and "acme" differ by case only.
Names == {"Acme", "Beta", "acme"}

Rank(n) == CHOOSE i \in DOMAIN NameOrder : NameOrder[i] = n

Row(c, f, p) == [client |-> c, front |-> f, n_prod |-> p]

\* The rows raw tables are built from: a client with every kind of front
\* cell and product cell, a second client, and a row with no client name.
RowAlphabet ==
    {Row("Acme", f, p) : f \in {"Ops", "Sales", "", NA}, p \in {3, 5, NaN}}
    \cup {Row("Beta", "Ops", 3), Row("Beta", NA, NaN), Row(NA, "Ops", 5)}

RECURSIVE SeqsUpTo(_, _)
SeqsUpTo(S, n) ==
    IF n = 0 THEN {<<>>}
    ELSE LET shorter == SeqsUpTo(S, n - 1)
         IN  shorter \cup {Append(s, x) : s \in {t \in shorter : Len(t) = n - 1}, x \in S}

AllCols == RequiredSet \cup {"Extra"}

\* A row of a table that lacks a column has no cell there.
Project(r, cols) ==
    [client |-> IF COL_CLIENT \in cols THEN r.client ELSE NA,
     front  |-> IF COL_FRONT \in cols THEN r.front ELSE NA,
     n_prod |-> IF COL_NPROD \in cols THEN r.n_prod ELSE NaN]

ProjectRows(rows, cols) == [i \in DOMAIN rows |-> Project(rows[i], cols)]

\* Raw tables: every column set over short tables, and the full schema over
\* tables of up to MaxRows rows.
RawTables ==
    {[cols |-> c, rows |-> ProjectRows(r, c)] :
        c \in SUBSET AllCols, r \in SeqsUpTo(RowAlphabet, 1)}
    \cup {[cols |-> RequiredSet, rows |-> r] : r \in SeqsUpTo(RowAlphabet, MaxRows)}

(***************************************************************************)
(* Helpers                                                                 *)
(***************************************************************************)
SeqRange(s) == {s[i] : i \in DOMAIN s}

SetMax(S) == CHOOSE m \in S : \A x \in S : x <= m

SetMin(S) == CHOOSE m \in S : \A x \in S : m <= x

Min2(a, b) == IF a <= b THEN a ELSE b

\* The elements of a set of names as a sequence in code-point order.
RECURSIVE SortedNames(_)
SortedNames(S) ==
    IF S = {} THEN <<>>
    ELSE LET first == CHOOSE n \in S : \A m \in S : Rank(n) <= Rank(m)
         IN  <<first>> \o SortedNames(S \ {first})

\* DataFrame.groupby(COL_CLIENT): one group per non-missing key.
GroupKeys(rows) == {rows[i].client : i \in DOMAIN rows} \ {NA}

(***************************************************************************)
(* validate_df                                                             *)
(***************************************************************************)
NoError == [raised |-> "none", missing |-> <<>>]

\* A validator that stops at the first absent column.
MissingColsFirstOnly(df) ==
    LET all == SelectSeq(REQUIRED_COLS, LAMBDA c : c \notin df.cols)
    IN  IF all = <<>> THEN <<>> ELSE <<Head(all)>>

MissingCols(df) == SelectSeq(REQUIRED_COLS, LAMBDA c : c \notin df.cols)

\* None when every required column is there, else ValueError(missing).
validate_df(df) ==
    IF MissingCols(df) # <<>>
    THEN [raised |-> "ValueError", missing |-> MissingCols(df)]
    ELSE NoError

(***************************************************************************)
(* ensure_metrics                                                          *)
(***************************************************************************)
\* count() in place of nunique(): every non-missing cell counts, repeats too.
NUniqueCountsRepeats(rows, k) ==
    Cardinality({i \in DOMAIN rows : rows[i].client = k /\ rows[i].front # NA})

\* nunique() that also drops the empty string.
NUniqueDropsEmpty(rows, k) ==
    Cardinality({rows[i].front : i \in {j \in DOMAIN rows : rows[j].client = k}} \ {NA, ""})

\* groupby(client)[front].nunique(): distinct values, missing ones dropped.
NUnique(rows, k) ==
    Cardinality({rows[i].front : i \in {j \in DOMAIN rows : rows[j].client = k}} \ {NA})

\* groupby(client)[n_prod].max(): missing values skipped, NaN when none is left.
GroupMax(rows, k) ==
    LET vs == {rows[i].n_prod : i \in {j \in DOMAIN rows : rows[j].client = k}} \ {NaN}
    IN  IF vs = {} THEN NaN ELSE SetMax(vs)

\* The per-client series fr and pr, indexed by client.
FrSeries(rows) == [k \in GroupKeys(rows) |-> NUnique(rows, k)]

PrSeries(rows) == [k \in GroupKeys(rows) |-> GroupMax(rows, k)]

\* merge(how="left") of a per-client series onto a row: NaN when no key matches.
LeftLookup(series, k) == IF k \in DOMAIN series THEN series[k] ELSE NaN

ensure_metrics(df) ==
    LET fr == FrSeries(df.rows)
        pr == PrSeries(df.rows)
    IN  [cols |-> df.cols \cup {"N_frentes_calc", "N_produtos_total_calc"},
         rows |-> [i \in DOMAIN df.rows |->
                    [client  |-> df.rows[i].client,
                     front   |-> df.rows[i].front,
                     n_prod  |-> df.rows[i].n_prod,
                     fr_calc |-> LeftLookup(fr, df.rows[i].client),
                     pr_calc |-> LeftLookup(pr, df.rows[i].client)]]]

(***************************************************************************)
(* client_table                                                            *)
(***************************************************************************)
\* agg(max) of one column over a client's rows, missing values skipped.
AggMax(rows, k, col) ==
    LET vs == {IF col = "fr" THEN rows[i].fr_calc ELSE rows[i].pr_calc :
                 i \in {j \in DOMAIN rows : rows[j].client = k}} \ {NaN}
    IN  IF vs = {} THEN NaN ELSE SetMax(vs)

\* pd.to_numeric(errors="coerce") on a numeric cell: the number, or NaN.
ToNumeric(v) == IF v \in Int /\ v # NaN THEN v ELSE NaN

\* One row per client, in key order, before the rows with a NaN are dropped.
Grouped(df) ==
    LET keys == SortedNames(GroupKeys(df.rows))
    IN  [i \in DOMAIN keys |->
            [client     |-> keys[i],
             N_frentes  |-> ToNumeric(AggMax(df.rows, keys[i], "fr")),
             N_produtos |-> ToNumeric(AggMax(df.rows, keys[i], "pr"))]]

\* fillna(0) in place of dropna: a client without metrics is kept with zeros.
DropNaZeroFills(rows) ==
    [i \in DOMAIN rows |->
        [client     |-> rows[i].client,
         N_frentes  |-> IF rows[i].N_frentes = NaN THEN 0 ELSE rows[i].N_frentes,
         N_produtos |-> IF rows[i].N_produtos = NaN THEN 0 ELSE rows[i].N_produtos]]

\* dropna(subset=[N_frentes, N_produtos]).
DropNa(rows) == SelectSeq(rows, LAMBDA r : r.N_frentes # NaN /\ r.N_produtos # NaN)

client_table(df) == DropNa(Grouped(df))

(***************************************************************************)
(* Pipeline: load -> validate_df -> ensure_metrics -> client_table         *)
(***************************************************************************)
NoTable == [cols |-> {}, rows |-> <<>>]

NoFilter == [mode |-> "none", lo |-> 0, hi |-> 0, sel |-> {}]

NoSlider == [min_value |-> 0, max_value |-> 0, value |-> 0]

\* "df_cached" not in st.session_state.
NoDf == [cols |-> {"<absent>"}, rows |-> <<>>]

\* "client_list" not in st.session_state.
NoList == {"<absent>"}

NoShow == [view |-> 0, kpis |-> <<>>, fr_dist |-> <<>>, pr_dist |-> <<>>, table |-> <<>>]

NoAttempt == [kind |-> "none", table |-> NoTable, validated |-> FALSE, derived |-> FALSE]

\* The session variables of a specification that runs no script.
SessionIdle ==
    /\ default_src = NoTable
    /\ lib = "none"
    /\ df_cached = NoDf
    /\ client_list = NoList
    /\ outcome = "none"
    /\ shown = NoShow
    /\ attempt = NoAttempt
    /\ last_valid = NoTable

InitPipe ==
    /\ stage = "loaded"
    /\ raw \in RawTables
    /\ err = NoError
    /\ derived = NoTable
    /\ clients = <<>>
    /\ flt = NoFilter
    /\ base_filtered = <<>>
    /\ top_n_args = NoSlider
    /\ SessionIdle

Validate ==
    /\ stage = "loaded"
    /\ err' = validate_df(raw)
    /\ stage' = IF validate_df(raw).raised = "none" THEN "validated" ELSE "rejected"
    /\ UNCHANGED <<raw, derived, clients, flt, base_filtered, top_n_args>>
    /\ UNCHANGED sessVars

Derive ==
    /\ stage = "validated"
    /\ derived' = ensure_metrics(raw)
    /\ stage' = "derived"
    /\ UNCHANGED <<raw, err, clients, flt, base_filtered, top_n_args>>
    /\ UNCHANGED sessVars

Aggregate ==
    /\ stage = "derived"
    /\ clients' = client_table(derived)
    /\ stage' = "summary"
    /\ UNCHANGED <<raw, err, derived, flt, base_filtered, top_n_args>>
    /\ UNCHANGED sessVars

NextPipe == Validate \/ Derive \/ Aggregate

SpecPipe == InitPipe /\ [][NextPipe]_vars

(***************************************************************************)
(* Range & list filter, and the widgets built from the Client Summary      *)
(***************************************************************************)
\* Largest metric value of a drawn Client Summary.
MaxMetric == 2

\* Client Summaries as client_table returns them: one row per client, in key
\* order, both metrics integers.
Summaries ==
    UNION {
        {[i \in DOMAIN SortedNames(ks) |->
            [client     |-> SortedNames(ks)[i],
             N_frentes  |-> m[SortedNames(ks)[i]][1],
             N_produtos |-> m[SortedNames(ks)[i]][2]]] :
          m \in [ks -> (0..MaxMetric) \X (0..MaxMetric)]} :
        ks \in SUBSET Names}

TopNMin == 10
TopNCap == 200
TopNDefault == 60

\* st.slider("Top N clientes no visual", ...): the arguments it is given.
TopNArgs(n) ==
    [min_value |-> TopNMin, max_value |-> Min2(TopNCap, n), value |-> Min2(TopNDefault, n)]

Metric(r, mode) == IF mode = "Frentes" THEN r.N_frentes ELSE r.N_produtos

\* A range test that leaves both ends out.
BetweenExclusive(v, lo, hi) == lo < v /\ v < hi

\* Series.between(lo, hi): both ends included.
Between(v, lo, hi) == lo <= v /\ v <= hi

\* The rows in the selected metric's range, then, when the list is not
\* empty, those of them whose client is in the list.
RangeSetFilter(cl, mode, lo, hi, sel) ==
    LET in_range == SelectSeq(cl, LAMBDA r : Between(Metric(r, mode), lo, hi))
    IN  IF sel # {}
        THEN SelectSeq(in_range, LAMBDA r : r.client \in sel)
        ELSE in_range

InitFilter ==
    /\ stage = "summary"
    /\ raw = NoTable
    /\ err = NoError
    /\ derived = NoTable
    /\ clients \in Summaries
    /\ flt = NoFilter
    /\ base_filtered = <<>>
    /\ top_n_args = NoSlider
    /\ SessionIdle

\* clients.empty: st.error and st.stop.
StopNoClients ==
    /\ stage = "summary"
    /\ clients = <<>>
    /\ stage' = "stopped"
    /\ UNCHANGED <<raw, err, derived, clients, flt, base_filtered, top_n_args>>
    /\ UNCHANGED sessVars

BuildTopN ==
    /\ stage = "summary"
    /\ clients # <<>>
    /\ top_n_args' = TopNArgs(Len(clients))
    /\ stage' = "widgets"
    /\ UNCHANGED <<raw, err, derived, clients, flt, base_filtered>>
    /\ UNCHANGED sessVars

ApplyFilter ==
    /\ stage = "widgets"
    /\ \E mode \in {"Frentes", "Produtos"}, lo, hi \in 0..MaxMetric, sel \in SUBSET Names :
        /\ lo <= hi
        /\ flt' = [mode |-> mode, lo |-> lo, hi |-> hi, sel |-> sel]
        /\ base_filtered' = RangeSetFilter(clients, mode, lo, hi, sel)
    /\ stage' = "filtered"
    /\ UNCHANGED <<raw, err, derived, clients, top_n_args>>
    /\ UNCHANGED sessVars

NextFilter == StopNoClients \/ BuildTopN \/ ApplyFilter

SpecFilter == InitFilter /\ [][NextFilter]_vars

(***************************************************************************)
(* The script run: session state, sidebar, widgets, filter, presentation   *)
(***************************************************************************)
\* Longest variable part of a table the session is given.
MaxSessRows == 1

\* Ten clients, the first with two fronts and the second with more products:
\* with them a table has the ten clients the Top-N slider's minimum asks
\* for, without them it has not.
BaseRows ==
    <<Row("C01", "Ops", 3), Row("C01", "Sales", 3), Row("C02", "Ops", 5)>>
    \o [i \in 1..8 |-> Row(NameOrder[i + 4], "Ops", 3)]

\* The clients the multiselect is tried with.
SelNames == Names \cup {"C01", "C02"}

\* What the multiselect is tried with: nothing ticked, one client, or all of
\* SelNames that are on offer.
SelChoices(options) ==
    {{}} \cup {{n} : n \in options \cap SelNames} \cup {options \cap SelNames}

\* The rows added to a session's table: a client with more products, a client
\* without a product total, a row without a client name, and a client whose
\* name differs from another's by case and whose front is the empty string.
SessRowAlphabet ==
    {Row("Acme", "Ops", 5), Row("Beta", NA, NaN), Row(NA, "Ops", 5), Row("acme", "", 3)}

\* Sheets with every required column.
SessionTables ==
    {[cols |-> RequiredSet, rows |-> pre \o r] :
        pre \in {<<>>, BaseRows}, r \in SeqsUpTo(SessRowAlphabet, MaxSessRows)}

\* Sheets that lack one, two or all required columns.
BrokenTables ==
    {[cols |-> c, rows |-> ProjectRows(<<Row("Acme", "Ops", 5)>>, c)] :
        c \in {RequiredSet \ {COL_NPROD}, {COL_CLIENT, "Extra"}, {}}}

\* A file without the sheet "Brasil_Latam": read_excel raises.
NoSheet == [cols |-> {"<no sheet>"}, rows |-> <<>>]

\* No file in the uploader.
NoUpload == [cols |-> {"<no upload>"}, rows |-> <<>>]

\* The names bound at module level when the script body starts (lines 1-93).
\* DEFAULT_FILE and DEFAULT_SHEET are locals of the first load_default_df
\* (lines 17-19), which the second definition (lines 21-22) replaces.
ModuleGlobals ==
    {"pd", "st", "px", "REQUIRED_COLS", "load_default_df", "load_uploaded_df",
     "validate_df", "ensure_metrics", "client_table", "bar_with_labels"}

\* load_default_df as bound at line 21: it reads the names DEFAULT_FILE and
\* DEFAULT_SHEET, then the sheet.
load_default_df(src) ==
    IF {"DEFAULT_FILE", "DEFAULT_SHEET"} \subseteq ModuleGlobals
    THEN [raised |-> "none", table |-> src]
    ELSE [raised |-> "NameError", table |-> NoTable]

load_uploaded_df(up) ==
    IF up = NoSheet
    THEN [raised |-> "ValueError(sheet)", table |-> NoTable]
    ELSE [raised |-> "none", table |-> up]

\* A load that stores the derived table before it validates.
InstallBeforeValidate(kind, loaded, df, list, valid) ==
    IF loaded.raised # "none"
    THEN [raised |-> loaded.raised, df |-> df, list |-> list, valid |-> valid,
          attempt |-> [kind |-> kind, table |-> NoTable,
                       validated |-> FALSE, derived |-> FALSE]]
    ELSE [raised |-> validate_df(loaded.table).raised,
          df |-> ensure_metrics(loaded.table), list |-> {},
          valid |-> IF validate_df(loaded.table).raised = "none"
                    THEN loaded.table ELSE valid,
          attempt |-> [kind |-> kind, table |-> loaded.table,
                       validated |-> validate_df(loaded.table).raised = "none",
                       derived |-> TRUE]]

\* df = load(); validate_df(df); df_cached = ensure_metrics(df); client_list = []
\* (lines 121-124 and 128-131).  Each call may raise and end the run there.
LoadAndInstall(kind, loaded, df, list, valid) ==
    IF loaded.raised # "none"
    THEN [raised |-> loaded.raised, df |-> df, list |-> list, valid |-> valid,
          attempt |-> [kind |-> kind, table |-> NoTable,
                       validated |-> FALSE, derived |-> FALSE]]
    ELSE IF validate_df(loaded.table).raised # "none"
    THEN [raised |-> "ValueError", df |-> df, list |-> list, valid |-> valid,
          attempt |-> [kind |-> kind, table |-> loaded.table,
                       validated |-> FALSE, derived |-> FALSE]]
    ELSE [raised |-> "none", df |-> ensure_metrics(loaded.table), list |-> {},
          valid |-> loaded.table,
          attempt |-> [kind |-> kind, table |-> loaded.table,
                       validated |-> TRUE, derived |-> TRUE]]

\* Lines 98-104: the first run of a session loads the default source; the
\* client list starts empty.  Unlike the buttons, startup leaves an existing
\* client list alone.
Startup ==
    IF df_cached = NoDf
    THEN LET r == LoadAndInstall("startup", load_default_df(default_src),
                                 df_cached, client_list, last_valid)
         IN  IF r.raised # "none" THEN r
             ELSE [r EXCEPT !.list = IF client_list = NoList THEN {} ELSE client_list]
    ELSE [raised |-> "none", df |-> df_cached,
          list |-> IF client_list = NoList THEN {} ELSE client_list,
          valid |-> last_valid, attempt |-> NoAttempt]

\* Lines 115-135: the sidebar's two load buttons.
Sidebar(button, up) ==
    LET s0 == Startup
    IN  IF s0.raised # "none" THEN s0
        ELSE IF button = "default"
        THEN LoadAndInstall("default", load_default_df(default_src), s0.df, s0.list, s0.valid)
        ELSE IF button = "upload" /\ up # NoUpload
        THEN LoadAndInstall("upload", load_uploaded_df(up), s0.df, s0.list, s0.valid)
        ELSE s0

MetricValues(cl, mode) == {Metric(cl[i], mode) : i \in DOMAIN cl}

\* min_value <= value <= max_value, as st.slider needs them.
SliderOk(args) == args.min_value <= args.value /\ args.value <= args.max_value

\* What the Top-N slider can return: a value between its ends, or, when the
\* ends are out of order and the library moves them, the default value.
TopNChoices(args) ==
    IF SliderOk(args) THEN args.min_value..args.max_value ELSE {args.value}

\* sort_values(value_col, ascending=False).head(top_n): the treemap gets the
\* top_n rows with the largest values, all of them when there are fewer.
\* Which of several equal rows make the cut is the sort's choice; the model
\* keeps the number of leaves, which is not.
ViewSize(bf, top_n) == Min2(top_n, Len(bf))

\* Lines 235-239.
Kpis(bf) ==
    [total_clients |-> Len(bf),
     clients_2p_frentes |-> Len(SelectSeq(bf, LAMBDA r : r.N_frentes >= 2)),
     clients_2p_produtos |-> Len(SelectSeq(bf, LAMBDA r : r.N_produtos >= 2)),
     max_fr |-> IF Len(bf) > 0 THEN SetMax(MetricValues(bf, "Frentes")) ELSE 0,
     max_pr |-> IF Len(bf) > 0 THEN SetMax(MetricValues(bf, "Produtos")) ELSE 0]

RECURSIVE Ascending(_)
Ascending(S) ==
    IF S = {} THEN <<>> ELSE <<SetMin(S)>> \o Ascending(S \ {SetMin(S)})

\* value_counts().sort_index(): the clients at each value, by value.
Distribution(bf, mode) ==
    LET vals == Ascending(MetricValues(bf, mode))
    IN  [i \in DOMAIN vals |->
            [value |-> vals[i],
             Clientes |-> Len(SelectSeq(bf, LAMBDA r : Metric(r, mode) = vals[i]))]]

\* merge(how="left"): every row of the left table is kept.
MergeKeepsLeft(left, right) == left

\* df.merge(base_filtered[[client]], on=client, how="inner"): a left row once
\* for every right row with the same key, in left order.
RECURSIVE InnerMerge(_, _)
InnerMerge(left, right) ==
    IF left = <<>> THEN <<>>
    ELSE LET hits == SelectSeq(right, LAMBDA r : r.client = Head(left).client)
         IN  [j \in DOMAIN hits |-> Head(left)] \o InnerMerge(Tail(left), right)

\* A guard that lets an empty table through.
EmptyGuardOff(bf) == FALSE

\* Line 199: base_filtered.empty.
EmptyGuard(bf) == bf = <<>>

\* How a run that stopped before the filter leaves the run's values.
Stopped(how, s1, cl, args) ==
    /\ outcome' = how
    /\ df_cached' = s1.df
    /\ client_list' = s1.list
    /\ attempt' = s1.attempt
    /\ last_valid' = s1.valid
    /\ clients' = cl
    /\ top_n_args' = args
    /\ flt' = NoFilter
    /\ base_filtered' = <<>>
    /\ shown' = NoShow

\* Lines 140-281 for the session s1 the sidebar left.  widgets tells whether
\* the run is a rerun on a widget, where the user may have moved the radio,
\* the range slider, the Top-N slider or the multiselect.  A run on a button
\* keeps the radio where the last run showed it and shows the sliders and the
\* multiselect at their defaults (the load has just emptied client_list).
Body(s1, widgets) ==
    \E cl \in {client_table(s1.df)} :
    \E args \in {TopNArgs(Len(cl))} :
        IF cl = <<>> THEN Stopped("no_clients", s1, cl, NoSlider)
        ELSE IF ~SliderOk(args) /\ lib = "raises"
        THEN Stopped("StreamlitAPIException", s1, cl, args)
        ELSE \E mode \in (IF widgets \/ flt.mode = "none"
                           THEN {"Frentes", "Produtos"} ELSE {flt.mode}) :
             \E mn \in {SetMin(MetricValues(cl, mode))}, mx \in {SetMax(MetricValues(cl, mode))} :
             \E lo \in (IF widgets THEN mn..mx ELSE {mn}),
                hi \in (IF widgets THEN mn..mx ELSE {mx}),
                sel \in (IF widgets
                         THEN SelChoices({cl[i].client : i \in DOMAIN cl})
                         ELSE {{}}),
                top_n \in (IF widgets THEN TopNChoices(args) ELSE {args.value}) :
                 /\ lo <= hi
                 /\ \E bf \in {RangeSetFilter(cl, mode, lo, hi, sel)} :
                        /\ df_cached' = s1.df
                        /\ client_list' = sel
                        /\ attempt' = s1.attempt
                        /\ last_valid' = s1.valid
                        /\ clients' = cl
                        /\ top_n_args' = args
                        /\ flt' = [mode |-> mode, lo |-> lo, hi |-> hi, sel |-> sel]
                        /\ base_filtered' = bf
                        /\ IF EmptyGuard(bf)
                           THEN outcome' = "warning" /\ shown' = NoShow
                           ELSE /\ outcome' = "rendered"
                                /\ shown' = [view |-> ViewSize(bf, top_n),
                                             kpis |-> Kpis(bf),
                                             fr_dist |-> Distribution(bf, "Frentes"),
                                             pr_dist |-> Distribution(bf, "Produtos"),
                                             table |-> InnerMerge(s1.df.rows, bf)]

\* One run of the script.  An exception in the sidebar ends the run with the
\* session as it was.
ScriptRun(button, up, widgets) ==
    /\ \E s1 \in {Sidebar(button, up)} :
          IF s1.raised # "none"
          THEN Stopped(s1.raised, s1, <<>>, NoSlider)
          ELSE Body(s1, widgets)
    /\ UNCHANGED <<pipeVars, default_src, lib>>

\* A rerun caused by a widget: no button pressed.
RunWidgets == df_cached # NoDf /\ ScriptRun("none", NoUpload, TRUE)

\* "Usar base padrao" pressed.
RunDefaultButton == df_cached # NoDf /\ ScriptRun("default", NoUpload, FALSE)

\* "Usar base enviada" pressed, with a file in the uploader.
RunUploadButton ==
    /\ df_cached # NoDf
    /\ \E up \in SessionTables \cup BrokenTables \cup {NoSheet} : ScriptRun("upload", up, FALSE)

\* The first run of a session: no widget exists yet.
RunFirst == df_cached = NoDf /\ ScriptRun("none", NoUpload, FALSE)

PipeIdle ==
    /\ stage = "session"
    /\ raw = NoTable
    /\ err = NoError
    /\ derived = NoTable

RunIdle ==
    /\ clients = <<>>
    /\ flt = NoFilter
    /\ base_filtered = <<>>
    /\ top_n_args = NoSlider

\* A new session of the program as it is: nothing in st.session_state.
Init ==
    /\ PipeIdle
    /\ RunIdle
    /\ default_src \in SessionTables \cup BrokenTables \cup RawTables
    /\ lib \in {"raises", "adjusts"}
    /\ df_cached = NoDf
    /\ client_list = NoList
    /\ outcome = "none"
    /\ shown = NoShow
    /\ attempt = NoAttempt
    /\ last_valid = NoTable

\* Every run of such a session ends at line 99, before any widget is drawn,
\* so no button is ever there to press.
Next == RunFirst

Spec == Init /\ [][Next]_vars

\* The default sources of the sessions that hold an active dataset.
SeedTables == {t \in SessionTables : t.rows = BaseRows}

\* A session that holds an active dataset: what lines 98-104 are written to
\* leave behind from a default source with every required column.  No run of
\* Spec gets there (load_default_df raises); SpecSession is the sidebar, the
\* filter and the presentation taken from such a session on.
InitSession ==
    /\ PipeIdle
    /\ RunIdle
    /\ default_src \in SeedTables
    /\ lib \in {"raises", "adjusts"}
    /\ df_cached = ensure_metrics(default_src)
    /\ client_list = {}
    /\ outcome = "none"
    /\ shown = NoShow
    /\ attempt = NoAttempt
    /\ last_valid = default_src

NextSession == RunWidgets \/ RunDefaultButton \/ RunUploadButton

SpecSession == InitSession /\ [][NextSession]_vars

(***************************************************************************)
(* Claims on the pipeline                                                  *)
(***************************************************************************)
RowsOf(k) == {i \in DOMAIN raw.rows : raw.rows[i].client = k}

\* C3: validate_df fails exactly when a required column is absent, the error
\* then names every absent required column and no other; with none absent it
\* returns nothing, and the table is the one that was loaded.
C3_ValidateNamesEveryMissing ==
    stage # "loaded" =>
        IF RequiredSet \subseteq raw.cols
        THEN err = NoError /\ stage # "rejected"
        ELSE /\ stage = "rejected"
             /\ err.raised = "ValueError"
             /\ SeqRange(err.missing) = RequiredSet \ raw.cols
             /\ Len(err.missing) = Cardinality(RequiredSet \ raw.cols)

C3_Witness ==
    /\ stage = "rejected"
    /\ Len(err.missing) >= 2
    /\ raw.rows # <<>>

\* C4: each Client Summary row has N_frentes = the number of distinct
\* non-missing fronts over the client's raw rows and N_produtos = the largest
\* product total over them; the Acme/Beta scenario gives (Acme,2,5),(Beta,1,3).
C4_SummaryMetrics ==
    stage = "summary" =>
        /\ \A i \in DOMAIN clients :
            LET c == clients[i]
                fronts == {f \in {"Ops", "Sales", ""} :
                             \E j \in RowsOf(c.client) : raw.rows[j].front = f}
            IN  /\ c.N_frentes = Cardinality(fronts)
                /\ \E j \in RowsOf(c.client) : raw.rows[j].n_prod = c.N_produtos
                /\ \A j \in RowsOf(c.client) :
                      raw.rows[j].n_prod # NaN => raw.rows[j].n_prod <= c.N_produtos
        /\ raw.rows = <<Row("Acme", "Ops", 5), Row("Acme", "Sales", 5), Row("Beta", "Ops", 3)>>
              => clients = <<[client |-> "Acme", N_frentes |-> 2, N_produtos |-> 5],
                             [client |-> "Beta", N_frentes |-> 1, N_produtos |-> 3]>>

C4_Witness ==
    /\ stage = "summary"
    /\ raw.rows = <<Row("Acme", "Ops", 5), Row("Acme", "Sales", 5), Row("Beta", "Ops", 3)>>
    /\ Len(clients) = 2

\* C5: the Client Summary has no repeated client, no missing metric, and holds
\* exactly the named clients with at least one non-missing product total.
C5_SummaryExactlyResolvable ==
    stage = "summary" =>
        /\ \A i, j \in DOMAIN clients : clients[i].client = clients[j].client => i = j
        /\ \A i \in DOMAIN clients :
              clients[i].N_frentes \in Nat /\ clients[i].N_produtos \in Nat
        /\ {clients[i].client : i \in DOMAIN clients}
              = {k \in Names : \E j \in RowsOf(k) : raw.rows[j].n_prod # NaN}

C5_Witness ==
    /\ stage = "summary"
    /\ \E j \in RowsOf("Beta") : TRUE
    /\ \A j \in RowsOf("Beta") : raw.rows[j].n_prod = NaN
    /\ \E i \in DOMAIN clients : clients[i].client = "Acme"
    /\ \A i \in DOMAIN clients : clients[i].client # "Beta"

\* The fronts of a derived row's client, with the given cells left out.
FrontsBut(k, out) == {raw.rows[j].front : j \in RowsOf(k)} \ out

\* C9 as stated: the empty string is left out of the distinct front count
\* like a missing value.
C9_EmptyStringNotCounted ==
    stage = "derived" =>
        \A i \in DOMAIN derived.rows :
            derived.rows[i].client # NA =>
                derived.rows[i].fr_calc
                    = Cardinality(FrontsBut(derived.rows[i].client, {NA, ""}))

\* C9 amended: the empty string is a front value like any other and counts
\* once; only a missing cell is left out.
C9_EmptyStringCounted ==
    stage = "derived" =>
        \A i \in DOMAIN derived.rows :
            derived.rows[i].client # NA =>
                LET named == FrontsBut(derived.rows[i].client, {NA, ""})
                    empty == IF \E j \in RowsOf(derived.rows[i].client) :
                                    raw.rows[j].front = ""
                             THEN 1 ELSE 0
                IN  derived.rows[i].fr_calc = Cardinality(named) + empty

C9_Witness ==
    /\ stage = "derived"
    /\ {raw.rows[j].front : j \in RowsOf("Acme")} = {"", "Ops"}
    /\ \E i \in DOMAIN derived.rows :
          derived.rows[i].client = "Acme" /\ derived.rows[i].fr_calc = 2

(***************************************************************************)
(* Claims on the filter and the widgets                                    *)
(***************************************************************************)
\* C6: the filter result is exactly the Client Summary rows whose selected
\* metric is in [lo, hi], both ends included, and, when the list is not
\* empty, whose client is in the list; each such row once, no other row.
C6_FilterRangeAndList ==
    stage = "filtered" =>
        LET wanted == {i \in DOMAIN clients :
                         /\ flt.lo <= Metric(clients[i], flt.mode)
                         /\ Metric(clients[i], flt.mode) <= flt.hi
                         /\ (flt.sel = {} \/ \E n \in flt.sel : n = clients[i].client)}
        IN  /\ SeqRange(base_filtered) = {clients[i] : i \in wanted}
            /\ Len(base_filtered) = Cardinality(wanted)

C6_Witness ==
    /\ stage = "filtered"
    /\ flt.sel # {}
    /\ base_filtered # <<>>
    /\ \E i \in DOMAIN base_filtered : Metric(base_filtered[i], flt.mode) = flt.lo
    /\ \E i \in DOMAIN clients :
          clients[i].client \in flt.sel /\ Metric(clients[i], flt.mode) > flt.hi
    /\ \E i \in DOMAIN clients :
          clients[i].client \notin flt.sel /\ Metric(clients[i], flt.mode) = flt.hi

\* C10 as stated: whenever the Client Summary is not empty, the Top-N slider's
\* minimum, default and maximum are in order.
C10_TopNWellFormed ==
    stage \in {"widgets", "filtered"} =>
        /\ top_n_args.min_value <= top_n_args.value
        /\ top_n_args.value <= top_n_args.max_value

(***************************************************************************)
(* Claims on the script run and the session                                *)
(***************************************************************************)
LoadFailed(o) == o \in {"NameError", "ValueError", "ValueError(sheet)"}

\* The session holds the derived table of the last table that passed
\* validate_df, and ensure_metrics ran only on a validated table.
C1_StateOk ==
    /\ attempt.derived => attempt.validated /\ RequiredSet \subseteq attempt.table.cols
    /\ LoadFailed(outcome) => attempt.kind # "none" /\ ~attempt.derived
    /\ RequiredSet \subseteq last_valid.cols
    /\ df_cached = ensure_metrics(last_valid)

\* A run whose load failed leaves df_cached and client_list as they were.
C1_FailedLoadKeepsSession ==
    LoadFailed(outcome') => df_cached' = df_cached /\ client_list' = client_list

\* C1: a load attempt that fails (a table without a required column, or a
\* load that raises) never reaches ensure_metrics and leaves df_cached and
\* client_list untouched; after any sequence of attempts df_cached is the
\* derived table of the last table that passed validation.
C1_FailedLoadHasNoEffect == []C1_StateOk /\ [][C1_FailedLoadKeepsSession]_vars

C1_Witness ==
    /\ outcome = "ValueError"
    /\ attempt.kind = "upload"
    /\ ~(RequiredSet \subseteq attempt.table.cols)
    /\ client_list # {}
    /\ last_valid # default_src
    /\ df_cached = ensure_metrics(last_valid)

\* C2 as stated: the first run of a session whose default source has every
\* required column installs its derived table as df_cached, and
\* load_default_df does not fail.
C2_StartupInstallsDefault ==
    (outcome # "none" /\ RequiredSet \subseteq default_src.cols) =>
        /\ outcome # "NameError"
        /\ df_cached = ensure_metrics(default_src)

\* The session can be rerun with the filters relaxed (the whole range of the
\* metric, nothing ticked) and the run gets past the widgets to a filter
\* result with rows.
RelaxedRunPossible ==
    LET cl == client_table(df_cached)
    IN  /\ cl # <<>>
        /\ SliderOk(TopNArgs(Len(cl))) \/ lib # "raises"
        /\ ~EmptyGuard(RangeSetFilter(cl, flt.mode, SetMin(MetricValues(cl, flt.mode)),
                                      SetMax(MetricValues(cl, flt.mode)), {}))

C7_StateOk ==
    /\ (flt.mode # "none" /\ base_filtered = <<>>) => outcome = "warning"
    /\ outcome = "warning" =>
          /\ flt.mode # "none" /\ base_filtered = <<>>
          /\ shown = NoShow
          /\ df_cached # NoDf /\ clients = client_table(df_cached)
          /\ RelaxedRunPossible
    /\ outcome = "rendered" => base_filtered # <<>> /\ shown # NoShow
    /\ shown # NoShow => outcome = "rendered"

\* A run with the full range of the metric and nothing ticked.
FullRange(f, cl) ==
    /\ f.mode # "none"
    /\ f.sel = {}
    /\ \A i \in DOMAIN cl : f.lo <= Metric(cl[i], f.mode) /\ Metric(cl[i], f.mode) <= f.hi

C7_RelaxedRunRenders ==
    (outcome = "warning" /\ FullRange(flt', clients')) =>
        outcome' = "rendered" /\ shown'.table # <<>>

\* C7: a run whose filter leaves no row ends with the warning and renders
\* nothing (no treemap view, KPI, distribution or table); the session keeps
\* its dataset, and a later run with the filters relaxed renders.
C7_EmptyFilterWarnsAndStops == []C7_StateOk /\ [][C7_RelaxedRunRenders]_vars

C7_Witness ==
    /\ outcome = "warning"
    /\ clients # <<>>
    /\ flt.sel # {}
    /\ \E i \in DOMAIN clients : clients[i].client \in flt.sel

\* C8: the table shown is the rows of df_cached whose client is in the
\* filtered Client Summary, each once and in table order; a row without a
\* client name is never shown.
C8_ShownTableIsFilteredRows ==
    outcome = "rendered" =>
        LET kept == {base_filtered[i].client : i \in DOMAIN base_filtered}
        IN  /\ shown.table = SelectSeq(df_cached.rows, LAMBDA r : r.client \in kept)
            /\ \A i \in DOMAIN shown.table : shown.table[i].client # NA

C8_Witness ==
    /\ outcome = "rendered"
    /\ \E i \in DOMAIN df_cached.rows : df_cached.rows[i].client = NA
    /\ \E i \in DOMAIN clients : \A j \in DOMAIN base_filtered : clients[i] # base_filtered[j]
    /\ \E i, j \in DOMAIN shown.table :
          i # j /\ shown.table[i].client = shown.table[j].client
    /\ Len(shown.table) < Len(df_cached.rows)

====
